---- MODULE Spec2Model ----
(***************************************************************************)
(* The incremental package loader of src/loader/loader.go: the package     *)
(* cache (Program.Packages), the handle index (Program.TypePackages), the  *)
(* IR program (Program.SSA), the dirty cascade (markDirty) and the mutual  *)
(* recursion of compile and ImportFrom, driven by the go/types checker.    *)
(*                                                                         *)
(* Go values are pointers, so the model keeps a heap: a Package object is  *)
(* a key of `heap`, a ReverseDependencies map is a key of `rmaps` (two     *)
(* Package objects may share one map, line 192).  An object's address is   *)
(* <<path, n>>: the n-th Package allocated by a compile of `path`.  The    *)
(* call stack of the single goroutine is the variable `stack`; the program *)
(* is quiescent when it is empty.                                          *)
(***************************************************************************)
EXTENDS Integers, Sequences, FiniteSets, TLC

\* Bounds of the model.
MaxObjs == 5        \* newPackage() allocations in one behaviour
MaxEdits == 1       \* source edits in one behaviour

\* The nil pointer (of *Package, *ssa.Package, *types.Package).
Nil == <<"nil", 0>>
\* The handle types.Unsafe; every other handle is the address of the
\* Package object whose Check call created it.
Unsafe == <<"types.Unsafe", 0>>

\* Import paths.  "yaml" is vendored: its canonical import path is
\* "vendor/yaml".  "unsafe" is the sentinel.  "missing" is an import string
\* no directory has.
Canon == {"app", "lib", "util", "vendor/yaml", "unsafe"}
ImportStrings == {"app", "lib", "util", "yaml", "unsafe", "missing"}
AllPaths == Canon \cup ImportStrings
NoPkg == ""

\* The workspaces the loader is run on.  A behaviour stays in one.
Workspaces == {"deps", "fail", "vendor", "sentinel", "cycle"}

\* The packages a workspace has on disk (the sentinel comes with the
\* toolchain).
Present(w) ==
    CASE w = "deps"     -> {"app", "lib", "util", "unsafe"}
      [] w = "fail"     -> {"app", "lib", "unsafe"}
      [] w = "vendor"   -> {"app", "lib", "vendor/yaml", "unsafe"}
      [] w = "sentinel" -> {"app", "unsafe"}
      [] w = "cycle"    -> {"app", "lib", "unsafe"}

\* The sources of the workspace: each package's import list and what the
\* toolchain finds in its directory ("ok": sources that compile, "parse": a
\* syntax error, "type": a type error, "cgo": cgo files, "gone": no
\* directory).
Imports(app, lib, util) ==
    [p \in Canon |-> CASE p = "app" -> app [] p = "lib" -> lib
                       [] p = "util" -> util [] OTHER -> {}]
AllOk == [p \in Canon |-> "ok"]
Sources(imps, p, st) == [imports |-> imps, status |-> [AllOk EXCEPT ![p] = st]]

\* The sources a workspace may have; the first are the initial ones, an
\* edit (the editor saving files) moves to another.
Worlds(w) ==
    CASE w = "deps" ->
           <<Sources(Imports({"util"}, {}, {"lib"}), "app", "ok"),
             Sources(Imports({"lib", "util"}, {}, {}), "app", "ok")>>
      [] w = "fail" ->
           <<Sources(Imports({"lib"}, {}, {}), "lib", "ok"),
             Sources(Imports({"lib"}, {}, {}), "lib", "parse"),
             Sources(Imports({"lib"}, {}, {}), "lib", "type"),
             Sources(Imports({"lib"}, {}, {}), "lib", "cgo"),
             Sources(Imports({"lib"}, {}, {}), "lib", "gone"),
             Sources(Imports({"lib"}, {}, {}), "app", "type"),
             Sources(Imports({"missing"}, {}, {}), "app", "ok")>>
      [] w = "vendor" ->
           <<Sources(Imports({"yaml"}, {"yaml"}, {}), "app", "ok"),
             Sources(Imports({"yaml"}, {}, {}), "app", "ok")>>
      [] w = "sentinel" ->
           <<Sources(Imports({"unsafe"}, {}, {}), "app", "ok"),
             Sources(Imports({}, {}, {}), "app", "ok")>>
      [] w = "cycle" ->
           <<Sources(Imports({"lib"}, {}, {}), "app", "ok"),
             Sources(Imports({}, {"app"}, {}), "app", "ok"),
             Sources(Imports({"lib"}, {"app"}, {}), "app", "ok")>>

Range(f) == {f[i] : i \in DOMAIN f}

\* The paths a caller passes to Compile (the editor passes canonical paths).
CallPaths(w) == IF w = "sentinel" THEN Present(w) ELSE Present(w) \ {"unsafe"}

VARIABLES
    workspace,      \* world: the workspace the loader runs on
    imports,        \* world: canonical path -> import strings of its sources
    status,         \* world: canonical path -> state of its sources
    edits,          \* number of source edits so far
    heap,           \* Package objects, by address
    rmaps,          \* ReverseDependencies maps, by address
    Packages,       \* Program.Packages: path -> Package object or Nil
    TypePackages,   \* Program.TypePackages: handle -> Package object
    SSA,            \* Program.SSA: the registered IR packages
    Errors,         \* Program.Errors
    stack,          \* the call stack, innermost frame last
    ret,            \* the result of the call that returned last
    crashed,        \* "" or why the process died
    calls,          \* what the running top-level call has invoked so far
    op              \* the top-level call running or returned last

vars == <<imports, status, edits, heap, rmaps, Packages, TypePackages, SSA,
          Errors, stack, ret, crashed, calls, op, workspace>>

world == <<workspace, imports, status, edits>>
history == <<op>>

----------------------------------------------------------------------------
\* Helpers on maps and the stack.

MapPut(m, k, v) == [x \in DOMAIN m \cup {k} |-> IF x = k THEN v ELSE m[x]]
MapDelete(m, k) == [x \in DOMAIN m \ {k} |-> m[x]]

\* The program state as one record; each step below is a function on it.
S == [heap |-> heap, rmaps |-> rmaps, Packages |-> Packages,
      TypePackages |-> TypePackages, SSA |-> SSA, Errors |-> Errors,
      stack |-> stack, ret |-> ret, crashed |-> crashed, calls |-> calls]

Set(s) ==
    /\ heap' = s.heap
    /\ rmaps' = s.rmaps
    /\ Packages' = s.Packages
    /\ TypePackages' = s.TypePackages
    /\ SSA' = s.SSA
    /\ Errors' = s.Errors
    /\ stack' = s.stack
    /\ ret' = s.ret
    /\ crashed' = s.crashed
    /\ calls' = s.calls

Top(s) == s.stack[Len(s.stack)]
SetTop(s, f) == [s EXCEPT !.stack[Len(s.stack)] = f]
Push(s, f) == [s EXCEPT !.stack = Append(@, f)]
Return(s, r) == [s EXCEPT !.stack = SubSeq(@, 1, Len(@) - 1), !.ret = r]

Frame(fn, pc, path, srcdir) ==
    [fn |-> fn, pc |-> pc, path |-> path, srcdir |-> srcdir, canon |-> NoPkg,
     pkg |-> Nil, old |-> Nil, todo |-> {}, seen |-> {}, failed |-> FALSE]

Result(pkg, typ, err) == [pkg |-> pkg, typ |-> typ, err |-> err]
NoResult == Result(Nil, Nil, "none")

NoCalls == [compile |-> [p \in AllPaths |-> 0], locate |-> {}, parse |-> {},
            check |-> {}, build |-> {}]

Quiescent == stack = <<>> /\ crashed = ""
Running(fn, pc) ==
    /\ crashed = ""
    /\ stack # <<>>
    /\ Top(S).fn = fn
    /\ Top(S).pc = pc

----------------------------------------------------------------------------
\* go/build: Build.Import(path, srcDir, 0).  The canonical import path of
\* what `path` names seen from srcDir, or NoPkg.  The workspace's vendor
\* directory applies to every directory of the workspace.
Locate(path, srcdir) ==
    LET canon == IF path = "yaml" THEN "vendor/yaml" ELSE path
    IN  IF canon \in Present(workspace) /\ status[canon] # "gone" THEN canon
        ELSE NoPkg

\* The address of the next Package a compile of `path` allocates.
NewAddr(s, path) == <<path, 1 + Cardinality({a \in DOMAIN s.heap : a[1] = path})>>

\* newPackage: a fresh Package with its own empty maps.
newPackage(id) ==
    [Package |-> Nil, SSA |-> Nil, Dependencies |-> {},
     ReverseDependencies |-> id, Explicit |-> FALSE, dirty |-> FALSE]

\* compile, lines 190-194: the new shell takes over the prior entry's
\* ReverseDependencies map (the same map, not a copy) and Explicit flag.
CarryForward(s, shell, old) ==
    IF old # Nil
    THEN [shell EXCEPT !.ReverseDependencies = s.heap[old].ReverseDependencies,
                       !.Explicit = s.heap[old].Explicit]
    ELSE shell

\* markDirty: no visited guard; a cycle among the cached reverse dependents
\* recurses until the goroutine stack overflows.  `fuel` is the depth a call
\* chain can have without repeating a cached package.
RECURSIVE markDirtyRec(_, _, _), markDirtyEach(_, _, _)
markDirtyEach(s, rdeps, fuel) ==
    IF rdeps = {} \/ s.crashed # "" THEN s
    ELSE LET rdep == CHOOSE x \in rdeps : TRUE
             rpkg == s.Packages[rdep]
             s1 == IF rpkg # Nil THEN markDirtyRec(s, rpkg, fuel) ELSE s
         IN  markDirtyEach(s1, rdeps \ {rdep}, fuel)

markDirtyRec(s, pkg, fuel) ==
    IF fuel = 0 THEN [s EXCEPT !.crashed = "stack overflow in markDirty"]
    ELSE LET s1 == [s EXCEPT !.heap[pkg].dirty = TRUE,
                             !.SSA = IF s.heap[pkg].SSA # Nil
                                     THEN @ \ {s.heap[pkg].SSA} ELSE @]
         IN  markDirtyEach(s1, s.rmaps[s.heap[pkg].ReverseDependencies], fuel - 1)

\* A variant of markDirty that stops at the direct reverse dependents.
markDirtyOneLevel(s, pkg) ==
    LET rdeps == s.rmaps[s.heap[pkg].ReverseDependencies]
        hit == {pkg} \cup ({s.Packages[r] : r \in rdeps} \ {Nil})
    IN  [s EXCEPT !.heap = [i \in DOMAIN @ |->
                               IF i \in hit THEN [@[i] EXCEPT !.dirty = TRUE] ELSE @[i]],
                  !.SSA = @ \ {s.heap[i].SSA : i \in hit}]

\* A variant of markDirty that follows Dependencies, not
\* ReverseDependencies.
markDirtyDownward(s, pkg) ==
    LET hit == {pkg} \cup ({s.Packages[d] : d \in s.heap[pkg].Dependencies} \ {Nil})
    IN  [s EXCEPT !.heap = [i \in DOMAIN @ |->
                               IF i \in hit THEN [@[i] EXCEPT !.dirty = TRUE] ELSE @[i]],
                  !.SSA = @ \ {s.heap[i].SSA : i \in hit}]

\* A variant of markDirty that marks every cached package.
markDirtyEverything(s, pkg) ==
    LET hit == {pkg} \cup ({s.Packages[p] : p \in AllPaths} \ {Nil})
    IN  [s EXCEPT !.heap = [i \in DOMAIN @ |->
                               IF i \in hit THEN [@[i] EXCEPT !.dirty = TRUE] ELSE @[i]],
                  !.SSA = @ \ {s.heap[i].SSA : i \in hit}]

markDirty(s, pkg) ==
    markDirtyRec(s, pkg, Cardinality({p \in AllPaths : s.Packages[p] # Nil}) + 2)

\* A variant of the test of line 117 with the dirty flag read the wrong
\* way round.
fastPathInverted(s, canon) ==
    /\ s.Packages[canon] # Nil
    /\ s.heap[s.Packages[canon]].dirty

\* ImportFrom, line 117: the cached entry may be reused.
fastPath(s, canon) ==
    /\ s.Packages[canon] # Nil
    /\ ~s.heap[s.Packages[canon]].dirty

\* compile, lines 239-250: the edges of `pkg` (canonical path `canon`) to
\* each import.  A dependency that is not cached is a nil dereference.
RECURSIVE registerEdges(_, _, _, _)
registerEdges(s, pkg, canon, imps) ==
    IF imps = {} \/ s.crashed # "" THEN s
    ELSE LET imp == CHOOSE x \in imps : TRUE
             bdep == Locate(imp, canon)
             dep == s.Packages[bdep]
             s1 == IF dep = Nil
                   THEN [s EXCEPT !.crashed = "nil dereference in compile"]
                   ELSE [s EXCEPT !.heap[pkg].Dependencies = @ \cup {bdep},
                                  !.rmaps[s.heap[dep].ReverseDependencies] = @ \cup {canon}]
         IN  registerEdges(s1, pkg, canon, imps \ {imp})

\* A variant of the sentinel branch placed after the dirty cascade of line
\* 207, without the assignment of line 203.
compileSentinelAfterDirty(s, pkg) ==
    Return([markDirty(s, pkg) EXCEPT !.heap[pkg].Package = Unsafe],
           Result(pkg, Unsafe, "none"))

\* compile, lines 201-205: the sentinel path gets the builtin handle and
\* returns before the cascade, the Locator and the Parser.
compileSentinel(s, pkg) ==
    Return([s EXCEPT !.heap[pkg].Package = Unsafe,
                     !.heap[pkg].dirty = FALSE],
           Result(pkg, Unsafe, "none"))

----------------------------------------------------------------------------
\* compile, lines 187-230: the shell, the sentinel, the dirty cascade, the
\* Locator, the cgo check and the Parser.
compileStartStep(s) ==
    LET f == Top(s)
        pkg == NewAddr(s, f.path)
        old == s.Packages[f.path]
        shell == CarryForward(s, newPackage(pkg), old)
        s1 == [s EXCEPT !.heap = MapPut(@, pkg, shell),
                        !.rmaps = MapPut(@, pkg, {}),
                        !.TypePackages = MapDelete(@, shell.Package),
                        !.calls.compile[f.path] = @ + 1]
        canon == Locate(f.path, f.srcdir)
    IN  IF f.path = "unsafe"
        THEN compileSentinel(s1, pkg)
        ELSE LET s2 == markDirty(s1, pkg)
                 s3 == [s2 EXCEPT !.calls.locate = @ \cup {f.path}]
             IN  IF s2.crashed # "" THEN s2
                 ELSE IF canon = NoPkg THEN Return(s3, Result(Nil, Nil, "locate"))
                 ELSE IF status[canon] = "cgo" THEN Return(s3, Result(Nil, Nil, "cgo"))
                 ELSE IF status[canon] = "parse"
                 THEN Return([s3 EXCEPT !.calls.parse = @ \cup {canon}],
                             Result(Nil, Nil, "parse"))
                 ELSE SetTop([s3 EXCEPT !.calls.parse = @ \cup {canon}],
                             [f EXCEPT !.pc = "check", !.canon = canon,
                                       !.pkg = pkg, !.old = old,
                                       !.todo = imports[canon]])

\* checker.Check, line 232: the checker resolves one import through the
\* importer (ImportFrom), in the order of the sources.
compileImportStep(s, imp) ==
    LET f == Top(s)
    IN  Push(SetTop(s, [f EXCEPT !.pc = "imported", !.todo = @ \ {imp}]),
             Frame("ImportFrom", "start", imp, f.canon))

\* checker.Check: the importer returned.  A failed import is a type error,
\* reported through checker.Error (lines 90-92); the checker goes on.
compileImportedStep(s) ==
    LET f == Top(s)
    IN  IF s.ret.err # "none"
        THEN SetTop([s EXCEPT !.Errors = Append(@, f.canon)],
                    [f EXCEPT !.pc = "check", !.failed = TRUE])
        ELSE SetTop(s, [f EXCEPT !.pc = "check"])

\* compile, lines 232-253: the rest of Check, then the IR, the edges, the
\* dirty flag.
compileFinishStep(s) ==
    LET f == Top(s)
        pkg == f.pkg
        typeError == status[f.canon] = "type"
        s1 == [s EXCEPT !.calls.check = @ \cup {f.canon},
                        !.Errors = IF typeError THEN Append(@, f.canon) ELSE @]
    IN  IF f.failed \/ typeError THEN Return(s1, Result(Nil, Nil, "type"))
        ELSE LET s2 == [s1 EXCEPT !.heap[pkg].Package = pkg,
                                  !.heap[pkg].SSA = pkg,
                                  !.SSA = @ \cup {pkg},
                                  !.calls.build = @ \cup {f.canon}]
                 s3 == registerEdges(s2, pkg, f.canon, imports[f.canon])
             IN  IF s3.crashed # "" THEN s3
                 ELSE Return([s3 EXCEPT !.heap[pkg].dirty = FALSE],
                             Result(pkg, pkg, "none"))

\* ImportFrom, lines 112-121.
ImportFromStartStep(s) ==
    LET f == Top(s)
        canon == Locate(f.path, f.srcdir)
        s1 == [s EXCEPT !.calls.locate = @ \cup {f.path}]
    IN  IF canon = NoPkg THEN Return(s1, Result(Nil, Nil, "locate"))
        ELSE IF fastPath(s1, canon)
        THEN Return(s1, Result(Nil, s1.heap[s1.Packages[canon]].Package, "none"))
        ELSE Push(SetTop(s1, [f EXCEPT !.pc = "compiled", !.canon = canon]),
                  Frame("compile", "start", f.path, f.srcdir))

\* A variant of lines 122-127 that marks what it stores Explicit.
ImportFromRetStepExplicit(s) ==
    LET f == Top(s)
        pkg == s.ret.pkg
    IN  IF s.ret.err # "none" THEN Return(s, Result(Nil, Nil, s.ret.err))
        ELSE Return([s EXCEPT !.heap[pkg].Explicit = TRUE,
                              !.Packages[f.canon] = pkg,
                              !.TypePackages = MapPut(@, s.heap[pkg].Package, pkg)],
                    Result(Nil, s.heap[pkg].Package, "none"))

\* A variant of lines 122-127 without the store of line 125.
ImportFromRetStepNoStore(s) ==
    LET f == Top(s)
        pkg == s.ret.pkg
    IN  IF s.ret.err # "none" THEN Return(s, Result(Nil, Nil, s.ret.err))
        ELSE Return([s EXCEPT !.TypePackages = MapPut(@, s.heap[pkg].Package, pkg)],
                    Result(Nil, s.heap[pkg].Package, "none"))

\* ImportFrom, lines 122-127.
ImportFromRetStep(s) ==
    LET f == Top(s)
        pkg == s.ret.pkg
    IN  IF s.ret.err # "none" THEN Return(s, Result(Nil, Nil, s.ret.err))
        ELSE Return([s EXCEPT !.Packages[f.canon] = pkg,
                              !.TypePackages = MapPut(@, s.heap[pkg].Package, pkg)],
                    Result(Nil, s.heap[pkg].Package, "none"))

\* A variant of lines 147-156 that caches the Package the failed compile
\* allocated.
CompileRetStepPartial(s) ==
    LET f == Top(s)
        pkg == s.ret.pkg
        n == Cardinality({a \in DOMAIN s.heap : a[1] = f.path})
    IN  IF s.Errors # <<>> \/ s.ret.err # "none"
        THEN Return([s EXCEPT !.Packages[f.path] = IF n > 0 THEN <<f.path, n>> ELSE @],
                    Result(Nil, Nil, IF s.Errors # <<>> THEN "TypeErrors" ELSE s.ret.err))
        ELSE Return([s EXCEPT !.heap[pkg].Explicit = TRUE,
                              !.Packages[f.path] = pkg,
                              !.TypePackages = MapPut(@, s.heap[pkg].Package, pkg)],
                    Result(pkg, s.heap[pkg].Package, "none"))

\* Compile, lines 147-156.
CompileRetStep(s) ==
    LET f == Top(s)
        pkg == s.ret.pkg
    IN  IF s.Errors # <<>> THEN Return(s, Result(Nil, Nil, "TypeErrors"))
        ELSE IF s.ret.err # "none" THEN Return(s, Result(Nil, Nil, s.ret.err))
        ELSE Return([s EXCEPT !.heap[pkg].Explicit = TRUE,
                              !.Packages[f.path] = pkg,
                              !.TypePackages = MapPut(@, s.heap[pkg].Package, pkg)],
                    Result(pkg, s.heap[pkg].Package, "none"))

\* RecompileDirtyPackages, lines 174-178: the range loop visits `path`.
RecompileVisitStep(s, path) ==
    LET f == Top(s)
        pkg == s.Packages[path]
    IN  IF ~s.heap[pkg].dirty
        THEN SetTop(s, [f EXCEPT !.seen = @ \cup {path}])
        ELSE Push(SetTop(s, [f EXCEPT !.pc = "compiled", !.seen = @ \cup {path}]),
                  Frame("compile", "start", path, "."))

\* RecompileDirtyPackages, lines 178-181: the result of compile is dropped.
RecompileRetStep(s) ==
    IF s.ret.err # "none" THEN Return(s, Result(Nil, Nil, s.ret.err))
    ELSE SetTop(s, [Top(s) EXCEPT !.pc = "loop"])

\* The goroutine runs on from a call or a return to the next point where
\* something is chosen (the checker's next import, the range loop's next
\* key) or to the end of the top-level call.
RECURSIVE Resume(_)
Resume(s) ==
    IF s.crashed # "" \/ s.stack = <<>> THEN s
    ELSE LET f == Top(s)
         IN  CASE f.fn = "compile" /\ f.pc = "start" -> Resume(compileStartStep(s))
               [] f.fn = "compile" /\ f.pc = "imported" -> compileImportedStep(s)
               [] f.fn = "ImportFrom" /\ f.pc = "start" -> Resume(ImportFromStartStep(s))
               [] f.fn = "ImportFrom" /\ f.pc = "compiled" -> Resume(ImportFromRetStep(s))
               [] f.fn = "Compile" /\ f.pc = "compiled" -> CompileRetStep(s)
               [] f.fn = "RecompileDirtyPackages" /\ f.pc = "compiled" -> RecompileRetStep(s)
               [] OTHER -> s

\* Go's garbage collector: a Package no pointer reaches (from the cache,
\* the handle index, a frame or a result) is gone, and so is a
\* ReverseDependencies map no live Package holds.
Live(s) ==
    {s.Packages[p] : p \in AllPaths}
        \cup {s.TypePackages[h] : h \in DOMAIN s.TypePackages}
        \cup {s.stack[i].pkg : i \in DOMAIN s.stack}
        \cup {s.stack[i].old : i \in DOMAIN s.stack}
        \cup {s.ret.pkg}

Collect(s) ==
    LET live == Live(s)
        maps == {s.heap[i].ReverseDependencies : i \in live \ {Nil}}
    IN  [s EXCEPT !.heap = [i \in DOMAIN @ |-> IF i \in live THEN @[i] ELSE newPackage(Nil)],
                  !.rmaps = [i \in DOMAIN @ |-> IF i \in maps THEN @[i] ELSE {}]]

\* A step is taken while the model has room for the objects it allocates.
Go(s) == Cardinality(DOMAIN s.heap) <= MaxObjs /\ Set(Collect(s))

----------------------------------------------------------------------------
\* A top-level call begins.  `cached`: its path is cached; `clean`: cached
\* and not dirty; `again`: the same call has just returned without error.
Begin(name, path) ==
    op' = [name |-> name, path |-> path,
           cached |-> path # NoPkg /\ Packages[path] # Nil,
           clean |-> path # NoPkg /\ fastPath(S, path),
           again |-> op.name = name /\ op.path = path /\ ret.err = "none"]

Init ==
    /\ workspace \in Workspaces
    /\ imports = Worlds(workspace)[1].imports
    /\ status = Worlds(workspace)[1].status
    /\ edits = 0
    /\ heap = <<>>
    /\ rmaps = <<>>
    /\ Packages = [p \in AllPaths |-> Nil]
    /\ TypePackages = <<>>
    /\ SSA = {}
    /\ Errors = <<>>
    /\ stack = <<>>
    /\ ret = NoResult
    /\ crashed = ""
    /\ calls = NoCalls
    /\ op = [name |-> "none", path |-> NoPkg, cached |-> FALSE, clean |-> FALSE,
             again |-> FALSE]

\* The editor saves files: the sources of the workspace change.
Edit(src) ==
    /\ Quiescent
    /\ edits < MaxEdits
    /\ <<src.imports, src.status>> # <<imports, status>>
    /\ imports' = src.imports
    /\ status' = src.status
    /\ edits' = edits + 1
    /\ Begin("Edit", NoPkg)
    /\ UNCHANGED <<workspace, heap, rmaps, Packages, TypePackages, SSA, Errors,
                   stack, ret, crashed, calls>>

\* A variant of Compile without the reset of line 145.
CallCompileNoReset(path) ==
    /\ Quiescent
    /\ Go(Resume([S EXCEPT !.calls = NoCalls,
                           !.ret = NoResult,
                           !.stack = <<Frame("Compile", "compiled", path, "."),
                                       Frame("compile", "start", path, ".")>>]))
    /\ Begin("Compile", path)
    /\ UNCHANGED world

\* Compile, lines 145-146, and the call of compile.
CallCompile(path) ==
    /\ Quiescent
    /\ Go(Resume([S EXCEPT !.Errors = <<>>,
                           !.calls = NoCalls,
                           !.ret = NoResult,
                           !.stack = <<Frame("Compile", "compiled", path, "."),
                                       Frame("compile", "start", path, ".")>>]))
    /\ Begin("Compile", path)
    /\ UNCHANGED world

\* compile's call of checker.Check asks the importer for one import of the
\* sources: ImportFrom, to its return or to its call of compile.
compileImport ==
    /\ Running("compile", "check")
    /\ \E imp \in Top(S).todo : Go(Resume(compileImportStep(S, imp)))
    /\ UNCHANGED <<world, history>>

\* Every import is resolved: the rest of compile, and its caller's use of
\* the result.
compileFinish ==
    /\ Running("compile", "check")
    /\ Top(S).todo = {}
    /\ Go(Resume(compileFinishStep(S)))
    /\ UNCHANGED <<world, history>>

\* RecompileDirtyPackages, line 174: the range over Packages begins.  Every
\* key present now is visited; a key added during the loop may be.
CallRecompileDirtyPackages ==
    /\ Quiescent
    /\ Set([S EXCEPT !.calls = NoCalls,
                     !.ret = NoResult,
                     !.stack = <<[Frame("RecompileDirtyPackages", "loop", NoPkg, ".")
                                   EXCEPT !.todo = {p \in AllPaths : Packages[p] # Nil}]>>])
    /\ Begin("RecompileDirtyPackages", NoPkg)
    /\ UNCHANGED world

\* RecompileDirtyPackages, lines 174-178: one iteration of the range loop.
RecompileVisit ==
    /\ Running("RecompileDirtyPackages", "loop")
    /\ \E path \in {p \in AllPaths : Packages[p] # Nil} \ Top(S).seen :
          Go(Resume(RecompileVisitStep(S, path)))
    /\ UNCHANGED <<world, history>>

\* RecompileDirtyPackages, line 183.
RecompileDone ==
    /\ Running("RecompileDirtyPackages", "loop")
    /\ Top(S).todo \subseteq Top(S).seen
    /\ Set(Return(S, NoResult))
    /\ UNCHANGED <<world, history>>

\* markDirty on a cached package, as line 167 applies it to a cached
\* reverse dependent: here for any cached package, the way an entry gets
\* dirty when a dependency outside the workspace is recompiled or the editor
\* layer invalidates it after an overlay write (the sentinel has no files
\* and no imports, so neither happens to it).
MarkDirtyCached(path) ==
    /\ Quiescent
    /\ Packages[path] # Nil
    /\ Set(markDirty([S EXCEPT !.calls = NoCalls, !.ret = NoResult], Packages[path]))
    /\ Begin("markDirty", path)
    /\ UNCHANGED world

Next ==
    \/ \E src \in Range(Worlds(workspace)) : Edit(src)
    \/ \E path \in CallPaths(workspace) : CallCompile(path)
    \/ compileImport
    \/ compileFinish
    \/ CallRecompileDirtyPackages
    \/ RecompileVisit
    \/ RecompileDone
    \/ \E path \in Present(workspace) \ {"unsafe"} : MarkDirtyCached(path)

Spec == Init /\ [][Next]_vars

\* The loader on one workspace.
InitDeps == Init /\ workspace = "deps"
SpecDeps == InitDeps /\ [][Next]_vars
InitFail == Init /\ workspace = "fail"
SpecFail == InitFail /\ [][Next]_vars
InitVendor == Init /\ workspace = "vendor"
SpecVendor == InitVendor /\ [][Next]_vars
InitSentinel == Init /\ workspace = "sentinel"
SpecSentinel == InitSentinel /\ [][Next]_vars
InitCycle == Init /\ workspace = "cycle"
SpecCycle == InitCycle /\ [][Next]_vars

\* The loader on the workspaces whose packages all build.
InitBuildable == Init /\ workspace \in {"deps", "vendor"}
SpecBuildable == InitBuildable /\ [][Next]_vars

----------------------------------------------------------------------------
\* Observations of the cache and of the last call.

Cached == {p \in AllPaths : Packages[p] # Nil}
Entry(p) == heap[Packages[p]]
RevDeps(p) == rmaps[Entry(p).ReverseDependencies]

Returned(name) == Quiescent /\ op.name = name
Succeeded(name) == Returned(name) /\ ret.err = "none"
Failed(name) == Returned(name) /\ ret.err # "none"

\* C1: after RecompileDirtyPackages returns without error no cached
\* package is dirty.
C1_NoDirtyAfterRecompile ==
    Succeeded("RecompileDirtyPackages") => \A p \in Cached : ~Entry(p).dirty

\* C2: a RecompileDirtyPackages call that follows one that returned without
\* error invokes compile for no path.
C2_RecompileIdempotent ==
    (op.name = "RecompileDirtyPackages" /\ op.again)
        => \A p \in AllPaths : calls.compile[p] = 0

\* C3: after a failed Compile(P) the entry still cached for P is dirty.
C3_FailedLeavesDirty ==
    (Failed("Compile") /\ op.path \in Cached) => Entry(op.path).dirty

\* C4: when no call runs, for cached A and B: B is in A's Dependencies
\* exactly when A is in B's ReverseDependencies.
C4_EdgesSymmetric ==
    Quiescent =>
        \A A \in Cached : \A B \in Cached :
            (B \in Entry(A).Dependencies) <=> (A \in RevDeps(B))

\* C5: after Compile(A) succeeded, each package B that A imports is cached,
\* is in A's Dependencies, has A in its ReverseDependencies, and A and B are
\* not dirty.
C5_EdgesAfterCompile ==
    Succeeded("Compile") =>
        \A imp \in imports[op.path] :
            LET B == Locate(imp, op.path)
            IN  /\ B \in Cached
                /\ B \in Entry(op.path).Dependencies
                /\ op.path \in RevDeps(B)
                /\ ~Entry(op.path).dirty
                /\ ~Entry(B).dirty

\* The cached packages reachable from the set `from` through
\* ReverseDependencies names that are cached: the least set closed under it.
RECURSIVE Reach(_, _)
Reach(from, n) ==
    IF n = 0 THEN from
    ELSE Reach(from \cup {r \in Cached : \E p \in from : r \in RevDeps(p)}, n - 1)

Closure(from) == Reach(from, Cardinality(AllPaths))

DirtyCached == {p \in Cached : Entry(p).dirty}
DirtyCachedAfter == {p \in Cached : heap'[Packages[p]].dirty}

\* C6: markDirty on a cached package B that returns leaves dirty exactly the
\* cached packages that were dirty before or are reachable from B through
\* cached ReverseDependencies names; so does the cascade that compile of a
\* cached path starts from the names in the prior entry's map.
C6_MarkDirtyClosure ==
    [][/\ (Quiescent /\ op'.name = "markDirty" /\ crashed' = "")
            => DirtyCachedAfter = DirtyCached \cup Closure({op'.path})
       /\ (Quiescent /\ op'.name = "Compile" /\ crashed' = ""
                /\ op'.path \in Cached /\ op'.path # "unsafe")
            => DirtyCachedAfter =
                 DirtyCached \cup Closure(RevDeps(op'.path) \cap Cached)]_vars

\* C6 happened: markDirty on B dirtied B and a package that reaches B only
\* through another one, and left a clean package outside the closure clean.
C6_Witness ==
    /\ Returned("markDirty")
    /\ \E r \in Cached \ {op.path} : \E q \in Cached \ {op.path, r} :
          /\ r \in RevDeps(op.path)
          /\ q \in RevDeps(r) /\ q \notin RevDeps(op.path)
          /\ Entry(q).dirty /\ Entry(r).dirty /\ Entry(op.path).dirty


\* C7: when no call runs, every value of TypePackages is the Package cached
\* under some import path.
C7_NoStaleHandle ==
    Quiescent => \A h \in DOMAIN TypePackages :
                    \E p \in Cached : Packages[p] = TypePackages[h]

\* C8: Compile of a path that is cached and not dirty, right after a
\* Compile of it that succeeded, runs no Parser, Analyzer or IR builder.
C8_CleanCompileDoesNothing ==
    (op.name = "Compile" /\ op.clean /\ op.again)
        => calls.parse = {} /\ calls.check = {} /\ calls.build = {}

\* The step is the checker's request for the import `imp` of the compile
\* whose frame is on top of the stack.
Requests(imp) ==
    /\ Running("compile", "check")
    /\ imp \in Top(S).todo
    /\ Len(stack') >= Len(stack)
    /\ stack'[Len(stack)].todo = Top(S).todo \ {imp}

\* C9: ImportFrom of a path whose canonical path is cached and not dirty
\* returns the cached handle, invokes compile for no path and leaves
\* Packages and TypePackages as they were; compile is invoked only when the
\* entry is absent or dirty.
C9_ImportFromFastPath ==
    [][\A imp \in ImportStrings :
         LET canon == Locate(imp, Top(S).canon)
             hit == Packages[canon] # Nil /\ ~heap[Packages[canon]].dirty
         IN  (Requests(imp) /\ canon # NoPkg) =>
               /\ hit => /\ calls'.compile = calls.compile
                         /\ Packages' = Packages
                         /\ TypePackages' = TypePackages
                         /\ DOMAIN heap' = DOMAIN heap
                         /\ \A p \in Cached : heap'[Packages[p]] = Entry(p)
                         /\ ret' = Result(Nil, heap[Packages[canon]].Package, "none")
               /\ calls'.compile # calls.compile => ~hit]_vars

\* C9 happened: the checker's import of a cached, clean package was answered
\* with its handle and without a compile.
C9_Witness ==
    /\ Running("compile", "check")
    /\ \E imp \in imports[Top(S).canon] \ Top(S).todo :
          LET canon == Locate(imp, Top(S).canon)
          IN  /\ canon # NoPkg /\ Packages[canon] # Nil
              /\ calls.compile[imp] = 0
              /\ ret = Result(Nil, Entry(canon).Package, "none")
              /\ ~Entry(canon).dirty

\* The packages whose compile is on the stack: each registers itself with
\* its dependencies when it finishes.
InFlight == {stack[i].canon : i \in {j \in DOMAIN stack : stack[j].fn = "compile"}}

\* C10: a cache store that replaces the entry of a path keeps the replaced
\* entry's Explicit flag and every member of its ReverseDependencies, but
\* for the packages being compiled at the time.
C10_RecompileKeepsRevDeps ==
    [][\A p \in Cached :
         Packages'[p] # Packages[p] =>
           /\ rmaps[Entry(p).ReverseDependencies] \ InFlight
                \subseteq rmaps'[heap'[Packages'[p]].ReverseDependencies]
           /\ Entry(p).Explicit => heap'[Packages'[p]].Explicit]_vars

\* An import of the sources of `p` that no directory answers to.
Unresolvable(p) == {imp \in imports[p] : Locate(imp, p) = NoPkg}

\* C11: a failing Compile of a path that was not cached leaves no entry for
\* it; when the path imports an unresolvable path the error returned is the
\* batch of type errors (the checker reports the failed import), when its
\* directory has cgo files it is the cgo error.
C11_FailureLeavesNoEntry ==
    (Failed("Compile") /\ ~op.cached) =>
        /\ Packages[op.path] = Nil
        /\ (Locate(op.path, ".") # NoPkg /\ status[op.path] = "cgo")
              => ret.err = "cgo"
        /\ (Locate(op.path, ".") # NoPkg /\ status[op.path] = "ok"
                /\ Unresolvable(op.path) # {})
              => ret.err = "TypeErrors" /\ Errors # <<>>

\* C11 happened: Compile of an uncached path that imports an unresolvable
\* path has failed.
C11_Witness ==
    /\ Failed("Compile") /\ ~op.cached
    /\ Locate(op.path, ".") # NoPkg /\ status[op.path] = "ok"
    /\ Unresolvable(op.path) # {}

\* C11 as stated: such a Compile returns the locate error (and leaves no
\* entry).
C11_ReturnsLocateError ==
    (Failed("Compile") /\ ~op.cached /\ Locate(op.path, ".") # NoPkg
        /\ status[op.path] = "ok" /\ Unresolvable(op.path) # {})
      => ret.err = "locate" /\ Packages[op.path] = Nil

\* The positions of the stack that hold a frame of compile.
CompileFrames == {i \in DOMAIN stack : stack[i].fn = "compile"}

\* C12: the recursion of compile and ImportFrom ends on an import cycle: a
\* path is never compiled inside its own compile (the inner compile meets
\* the cache as the outer one did, so a path once re-entered is re-entered
\* without end).
C12_NoReentry ==
    \A i \in CompileFrames : \A j \in CompileFrames :
        (stack[i].path = stack[j].path /\ stack[i].srcdir = stack[j].srcdir) => i = j

\* C13: Compile of "unsafe" succeeds with the builtin handle, calls neither
\* the Locator nor the Parser (nor the checker or the IR builder), and the
\* entry it caches is not dirty and has no IR.
C13_SentinelCompile ==
    (Returned("Compile") /\ op.path = "unsafe") =>
        /\ ret.err = "none" /\ ret.typ = Unsafe
        /\ calls.locate = {} /\ calls.parse = {}
        /\ calls.check = {} /\ calls.build = {}
        /\ Packages["unsafe"] = ret.pkg
        /\ Entry("unsafe").Package = Unsafe
        /\ ~Entry("unsafe").dirty
        /\ Entry("unsafe").SSA = Nil

\* C13 happened: Compile of "unsafe" has returned, for a second time.
C13_Witness ==
    /\ Returned("Compile") /\ op.path = "unsafe"
    /\ op.cached

\* C14: the entry cached for "unsafe" is never dirty and the Parser is
\* never called for it.
C14_SentinelNeverDirty ==
    /\ Packages["unsafe"] # Nil => ~Entry("unsafe").dirty
    /\ "unsafe" \notin calls.parse

\* C14 happened: a cascade has dirtied a cached package that imports
\* "unsafe", with "unsafe" cached.
C14_Witness ==
    /\ Quiescent
    /\ Packages["unsafe"] # Nil
    /\ \E p \in Cached : /\ "unsafe" \in Entry(p).Dependencies
                         /\ Entry(p).dirty

\* C15: the ReverseDependencies of the entry cached for "unsafe" is empty
\* in every state.
C15_SentinelNoDependents ==
    Packages["unsafe"] # Nil => RevDeps("unsafe") = {}

\* The sources of `p`, or of a package it imports (to depth n), do not
\* build: only the check of such a package reports an error.
RECURSIVE Fails(_, _)
Fails(p, n) ==
    \/ p = NoPkg
    \/ status[p] # "ok"
    \/ n > 0 /\ \E imp \in imports[p] : Fails(Locate(imp, p), n - 1)

\* The error of the stage that fails in compile of `p` before the checker
\* runs.
StageError(p) ==
    IF Locate(p, ".") = NoPkg THEN "locate"
    ELSE IF status[p] = "cgo" THEN "cgo"
    ELSE IF status[p] = "parse" THEN "parse"
    ELSE "none"

\* C16: when the checker reported errors during a Compile, the call returns
\* no package but the batch, which holds an error of every package whose
\* check found a type error in this call and of no package that was not
\* checked in this call; when it reported none, a failing Compile returns
\* the error of the stage that failed.
C16_ErrorBatch ==
    Returned("Compile") =>
        /\ Errors # <<>> => /\ ret = Result(Nil, Nil, "TypeErrors")
                            /\ Range(Errors) \subseteq
                                 {p \in calls.check : Fails(p, Cardinality(Canon))}
        /\ {p \in calls.check : status[p] = "type"} \subseteq Range(Errors)
        /\ Errors = <<>> => /\ ret.err = StageError(op.path)
                            /\ ret.err = "none" => ret.pkg = Packages[op.path]

\* C16 happened: a Compile has returned a batch of more than one error (a
\* type error of an imported package, and the failed import).
C16_Witness ==
    /\ Failed("Compile")
    /\ Len(Errors) >= 2
    /\ \E p \in Range(Errors) : p # op.path

C18_InFlightEntryDirty ==
    [][\A imp \in ImportStrings :
         LET canon == Locate(imp, Top(S).canon)
         IN  (Requests(imp) /\ canon # NoPkg) =>
               \A i \in CompileFrames :
                  (/\ stack[i].canon = canon
                   /\ stack[i].old # Nil
                   /\ Packages[canon] = stack[i].old)
                  => heap[stack[i].old].dirty]_vars

\* C19: a markDirty cascade ends: its recursion never gets deeper than the
\* cached packages are many (a deeper chain of calls holds a package twice,
\* and nothing stops it from going round again).
C19_MarkDirtyTerminates == crashed # "stack overflow in markDirty"

\* C20: in one pass of RecompileDirtyPackages compile runs at most once for
\* each path.
C20_OncePerPass ==
    op.name = "RecompileDirtyPackages" => \A p \in AllPaths : calls.compile[p] <= 1

\* The IR of the cached package p is registered in the IR program.
HasIR(p) == Entry(p).SSA # Nil /\ Entry(p).SSA \in SSA

\* C21: a Compile whose compile fails with the locate error or the cgo error
\* leaves the dirty flag and the IR of every cached package as they were.
C21_LocateFailureKeepsDirty ==
    [][(Quiescent /\ Quiescent' /\ op'.name = "Compile"
            /\ ret'.err \in {"locate", "cgo"})
        => \A p \in Cached :
              /\ Packages'[p] = Packages[p]
              /\ heap'[Packages[p]].dirty = Entry(p).dirty
              /\ (heap'[Packages[p]].SSA # Nil /\ heap'[Packages[p]].SSA \in SSA')
                    <=> HasIR(p)]_vars

\* C22: when no call runs the IR program holds at most one IR package for
\* each import path, and it is the IR of the entry cached now.
C22_OneIRPerPath ==
    Quiescent =>
        \A a \in SSA :
            /\ \A b \in SSA : a[1] = b[1] => a = b
            /\ \E p \in Cached : Entry(p).SSA = a

\* C23: when compile has had every import resolved without a failure, each
\* import of its sources names a cached package, and the edge loop never
\* dereferences a missing one.
C23_DependenciesCached ==
    /\ crashed # "nil dereference in compile"
    /\ (Running("compile", "check") /\ Top(S).todo = {} /\ ~Top(S).failed)
          => \A imp \in imports[Top(S).canon] : Locate(imp, Top(S).canon) \in Cached

C23_Witness ==
    /\ Succeeded("Compile")
    /\ op.path \in calls.build
    /\ imports[op.path] # {}
    /\ Entry(op.path).Dependencies = {Locate(imp, op.path) : imp \in imports[op.path]}

\* A workspace has no chain of imports or of reverse dependents longer than
\* this.
Rounds == Cardinality(Present(workspace)) - 1

\* The canonical paths the sources reach from `from` through imports.
RECURSIVE ImportClosure(_, _)
ImportClosure(from, n) ==
    IF n = 0 THEN from
    ELSE ImportClosure(
             from \cup (UNION {{Locate(imp, p) : imp \in imports[p]} :
                                  p \in from \cap DOMAIN imports} \ {NoPkg}),
             n - 1)

\* The packages cached in pkgs that are reachable from `from` through
\* recorded ReverseDependencies names, in the heap hp with the maps rm.
RECURSIVE ReverseClosure(_, _, _, _, _)
ReverseClosure(from, n, pkgs, hp, rm) ==
    IF n = 0 THEN from
    ELSE ReverseClosure(
             from \cup {r \in AllPaths :
                           /\ pkgs[r] # Nil
                           /\ \E p \in from :
                                 /\ pkgs[p] # Nil
                                 /\ r \in rm[hp[pkgs[p]].ReverseDependencies]},
             n - 1, pkgs, hp, rm)

\* What a Compile of P may touch: P, the packages P's sources reach through
\* imports, and every cached package reachable from one of them through
\* recorded ReverseDependencies names.
Related(P, pkgs, hp, rm) ==
    ReverseClosure(ImportClosure({P}, Rounds), Rounds, pkgs, hp, rm)

\* The cached package Q is after the step what it was before it: the same
\* entry with the same fields, the same ReverseDependencies, the same IR
\* registration.
Untouched(Q) ==
    /\ Packages'[Q] = Packages[Q]
    /\ heap'[Packages[Q]] = Entry(Q)
    /\ rmaps'[Entry(Q).ReverseDependencies] = RevDeps(Q)
    /\ (Entry(Q).SSA \in SSA') <=> (Entry(Q).SSA \in SSA)

C25_CleanHasCleanDependencies ==
    Quiescent =>
        /\ \A A \in Cached :
              ~Entry(A).dirty =>
                  \A B \in Entry(A).Dependencies : B \in Cached /\ ~Entry(B).dirty
        /\ Succeeded("Compile") =>
              \A B \in ImportClosure({op.path}, Rounds) : B \in Cached /\ ~Entry(B).dirty

\* C26: within one Compile call compile runs at most once for each path, and
\* a dependency the call has compiled and stored stays cached and not dirty
\* for the rest of the call.
C26_OncePerCompile ==
    op.name = "Compile" =>
        /\ \A p \in AllPaths : calls.compile[p] <= 1
        /\ \A p \in calls.build \ {op.path} : p \in Cached /\ ~Entry(p).dirty

====
